---- MODULE Spec2Model ----
\* Model of fly console (internal/command/console/console.go): machine
\* selection, ephemeral machine provisioning, the destruction check after a
\* 404 from wait-for-started, and the deferred teardown of runConsole.
EXTENDS Integers, Sequences, FiniteSets, TLC

VARIABLES
    pc,          \* position of the session in runConsole and its callees
    selectFlag,  \* flag.GetBool(ctx, "select")
    args,        \* flag.Args(ctx): zero or one machine ID
    released,    \* the app has a current release (GetAppCurrentReleaseMachines is not nil)
    consoleConfigOK, \* appConfig.ToConsoleMachineConfig() succeeds
    listErr,     \* promptForMachine: the error returned by flapsClient.ListActive
    checkErr,    \* checkMachineDestruction: the error returned by flapsClient.Get
    machines,    \* promptForMachine: the filtered machine list
    index,       \* promptForMachine: the index set by prompt.Select (-1: no prompt answered)
    fetched,     \* the machine returned by the last flapsClient.Get
    launched,    \* makeEphemeralMachine: the machine returned by flapsClient.Launch
    firstErr,    \* makeEphemeralMachine: the error returned by wait-for-started
    destroyed,   \* makeEphemeralMachine: local `destroyed`
    machine,     \* runConsole: machine returned by selectMachine
    ephemeral,   \* runConsole: ephemeral flag returned by selectMachine
    selected,    \* selectMachine has returned to runConsole
    selErr,      \* runConsole: the error returned by selectMachine
    err,         \* runConsole: local `err` after selection
    deferred,    \* runConsole: the teardown closure has been registered by `defer`
    retval,      \* runConsole: the value evaluated by the executed `return` statement
    result,      \* the error runConsole handed to its caller
    calls,       \* collaborator calls issued so far, in order
    warnings,    \* terminal.Warn / terminal.Warnf lines emitted so far, in order
    cancelled,   \* the caller's ctx has been cancelled
    cancelPc     \* the position at which the caller's ctx was cancelled

vars == <<pc, selectFlag, args, released, consoleConfigOK, listErr, checkErr, machines, index, fetched, launched, firstErr,
          destroyed, machine, ephemeral, selected, selErr, err, deferred, retval, result,
          calls, warnings, cancelled, cancelPc>>

-----------------------------------------------------------------------------
\* Bounds of the model.

\* Number of machines that exist before the session starts (IDs 1..MaxMachines).
MaxMachines == 2

\* Longest event history of a re-fetched machine.
MaxEvents == 2

-----------------------------------------------------------------------------
\* Machines (api.Machine), as far as console.go reads them.

ExistingIDs == 1..MaxMachines

\* The ID the fleet API assigns to a machine launched by this session.
NewID == MaxMachines + 1

States == {"created", "starting", "started", "stopping", "destroying",
           "destroyed", "replacing"}

MachineStateStarted == "started"

MachineStateDestroyed == "destroyed"

MachineStateDestroying == "destroying"

\* Exit codes a request record can carry.
ExitCodes == {0, 137}

\* event.Request: absent (nil), or present with an exit code that GetExitCode
\* can or cannot read.
Requests == {[present |-> FALSE, codeOK |-> FALSE, code |-> 0],
             [present |-> TRUE, codeOK |-> FALSE, code |-> 0]}
            \cup {[present |-> TRUE, codeOK |-> TRUE, code |-> c] : c \in ExitCodes}

NoRequest == [present |-> FALSE, codeOK |-> FALSE, code |-> 0]

Events == {[Type |-> "start", Request |-> NoRequest]}
          \cup {[Type |-> "exit", Request |-> r] : r \in Requests}

EventSeqs == UNION {[1..n -> Events] : n \in 0..MaxEvents}

Machine(id, state, release, events) ==
    [ID |-> id, State |-> state, Release |-> release, Events |-> events]

\* A nil *api.Machine.
NoMachine == Machine(0, "nil", FALSE, <<>>)

\* machine.IsFlyAppsReleaseCommand()
IsFlyAppsReleaseCommand(m) == m.Release

-----------------------------------------------------------------------------
\* Errors. An error is its chain of layers, outermost first (fmt.Errorf with
\* %w puts a layer in front); nil is the empty chain. A layer has a message,
\* the value formatted into it (0 if none), and, for a *flaps.FlapsError, its
\* ResponseStatusCode.

NoErr == <<>>

Layer(msg, arg, flaps, status) ==
    [msg |-> msg, arg |-> arg, flaps |-> flaps, status |-> status]

\* errors.New(msg)
New(msg) == <<Layer(msg, 0, FALSE, 0)>>

\* fmt.Errorf(msg + " %v", arg)
Errorf(msg, arg) == <<Layer(msg, arg, FALSE, 0)>>

\* fmt.Errorf(msg + ": %w", e)
Wrap(msg, e) == <<Layer(msg, 0, FALSE, 0)>> \o e

\* A *flaps.FlapsError with the given ResponseStatusCode.
FlapsError(status) == <<Layer("flaps error", 0, TRUE, status)>>

StatusNotFound == 404

\* Response status codes other than 404 that a FlapsError is drawn with.
OtherStatuses == {500}

\* errors.As(err, &flapsErr) && flapsErr.ResponseStatusCode == 404: errors.As
\* yields the outermost FlapsError of the chain.
IsNotFound(e) ==
    \E i \in DOMAIN e :
        /\ e[i].flaps
        /\ \A j \in 1..(i - 1) : ~e[j].flaps
        /\ e[i].status = StatusNotFound

\* A call on the caller's ctx can fail with the context's error once the
\* context is cancelled.
CtxErrors == IF cancelled THEN {New("context canceled")} ELSE {}

\* Failures of the API collaborators (GraphQL client, flaps client, prompt, ssh).
ApiErrors == {New("api error")} \cup {FlapsError(c) : c \in OtherStatuses} \cup CtxErrors

\* Failures of flapsClient.Get: the machine may also be gone (not found).
GetErrors == ApiErrors \cup {FlapsError(StatusNotFound)}

\* Failures of wait-for-started: timeout, generic error, not-found (bare or wrapped).
WaitErrors == {New("timeout"), FlapsError(StatusNotFound),
               Wrap("wait", FlapsError(StatusNotFound))}
              \cup {FlapsError(c) : c \in OtherStatuses} \cup CtxErrors

\* Failures of the teardown calls, which run on context.Background.
StopErrors == {New("timeout")} \cup {FlapsError(c) : c \in OtherStatuses}

-----------------------------------------------------------------------------
\* Collaborator calls and warnings, recorded in order.

Call(op, id, ctx) == [op |-> op, id |-> id, ctx |-> ctx]

Issued(op) == \E i \in DOMAIN calls : calls[i].op = op

IssuedFor(op, id) == \E i \in DOMAIN calls : calls[i].op = op /\ calls[i].id = id

WarnManualMachine == "You may need to destroy the machine manually"

WarnManualIt == "You may need to destroy it manually"

WarnStopFailed == "Failed to stop ephemeral machine"

WarnWaitFailed == "Failed to wait for ephemeral machine to be destroyed"

-----------------------------------------------------------------------------
Init ==
    /\ pc = "Idle"
    /\ selectFlag \in BOOLEAN
    /\ args \in {<<>>} \cup {<<id>> : id \in ExistingIDs}
    /\ released \in BOOLEAN
    /\ consoleConfigOK \in BOOLEAN
    /\ listErr = NoErr
    /\ checkErr = NoErr
    /\ machines = <<>>
    /\ index = -1
    /\ fetched = NoMachine
    /\ launched = NoMachine
    /\ firstErr = NoErr
    /\ destroyed = FALSE
    /\ machine = NoMachine
    /\ ephemeral = FALSE
    /\ selected = FALSE
    /\ selErr = NoErr
    /\ err = NoErr
    /\ deferred = FALSE
    /\ retval = NoErr
    /\ result = NoErr
    /\ calls = <<>>
    /\ warnings = <<>>
    /\ cancelled = FALSE
    /\ cancelPc = "none"

-----------------------------------------------------------------------------
\* runConsole: returning, and the deferred teardown.

Log(c) == calls' = Append(calls, c)

\* Mutant: the teardown closure is never deferred.
DeferNever(eph) == FALSE

\* Mutant: the teardown closure is deferred for every selected machine.
DeferAlways(eph) == TRUE

\* runConsole line 93: the teardown closure is deferred iff ephemeral.
DeferRegistered(eph) == eph

\* Mutant: runConsole with a named result that the closure assigns on failure.
AfterTeardownNamed(rv, e) == IF e # NoErr THEN e ELSE rv

\* The deferred closure keeps its errors in variables of its own (`if err :=
\* ...`), and runConsole's result is unnamed: the value runConsole hands back
\* after the closure ran with error e is the value rv its return evaluated.
AfterTeardown(rv, e) == rv

\* A `return e` of runConsole after line 119: the deferred closure, if
\* registered, runs before the function returns.
Return(e) ==
    /\ retval' = e
    /\ IF deferred
          THEN pc' = "Stop" /\ UNCHANGED result
          ELSE pc' = "Done" /\ result' = e

\* runConsole lines 88-119: selectMachine hands back (m, eph, e); an error
\* returns at once, otherwise the teardown is deferred if eph.
ReturnFromSelect(m, eph, e) ==
    /\ machine' = m
    /\ ephemeral' = eph
    /\ selected' = TRUE
    /\ selErr' = e
    /\ err' = e
    /\ IF e # NoErr
          THEN /\ retval' = e
               /\ result' = e
               /\ pc' = "Done"
               /\ UNCHANGED deferred
          ELSE /\ deferred' = DeferRegistered(eph)
               /\ pc' = "BringUpAgent"
               /\ UNCHANGED <<retval, result>>

inVars == <<selectFlag, args, released, consoleConfigOK, cancelled, cancelPc>>

selVars == <<listErr, checkErr, machines, index, fetched, launched, firstErr, destroyed>>

outVars == <<machine, ephemeral, selected, selErr, err, deferred>>

\* runConsole lines 54-87: app lookup, platform check, flaps client, app
\* config and its validation; each failure returns before selection.
PreambleErrors ==
    {Wrap("failed to get app", e) : e \in ApiErrors}
    \cup {New("console is only supported for the machines platform")}
    \cup {Wrap("failed to create flaps client", e) : e \in ApiErrors}
    \cup {Wrap("failed to fetch app config from backend", e) : e \in ApiErrors}
    \cup {New("invalid app config")}

RunConsoleStart ==
    /\ pc = "Idle"
    /\ Log(Call("GetAppCompact", 0, "caller"))
    /\ \/ \E e \in PreambleErrors : Return(e)
       \/ pc' = "selectMachine" /\ UNCHANGED <<retval, result>>
    /\ UNCHANGED <<inVars, selVars, outVars, warnings>>

-----------------------------------------------------------------------------
\* selectMachine (lines 141-149).

SelectTarget(sel, a) ==
    IF sel THEN "promptForMachine"
    ELSE IF Len(a) = 1 THEN "getMachineByID"
    ELSE "makeEphemeralMachine"

selectMachine ==
    /\ pc = "selectMachine"
    /\ pc' = SelectTarget(selectFlag, args)
    /\ UNCHANGED <<inVars, selVars, outVars, retval, result, calls, warnings>>

-----------------------------------------------------------------------------
\* promptForMachine (lines 151-182).

\* Mutant: promptForMachine without the check of the arguments.
NoConflictCheck(a) == FALSE

\* Line 152: machine IDs can't be used with -s/--select.
ConflictingSelectors(a) == Len(a) # 0

\* Mutant: the filter keeps release command machines.
UsableStarted(m) == m.State = "started"

\* Line 162: the predicate of lo.Filter.
Usable(m) == m.State = MachineStateStarted /\ ~IsFlyAppsReleaseCommand(m)

\* lo.Filter(machines, ...): the elements that satisfy Usable, in order.
RECURSIVE Filter(_)
Filter(ms) ==
    IF ms = <<>> THEN <<>>
    ELSE IF Usable(Head(ms)) THEN <<Head(ms)>> \o Filter(Tail(ms))
    ELSE Filter(Tail(ms))

\* Responses of flapsClient.ListActive: machines that exist, each listed once,
\* taken in the order of their IDs.
MachineLists ==
    {ms \in UNION {[1..n -> {Machine(id, st, rel, <<>>) :
                                id \in ExistingIDs, st \in States, rel \in BOOLEAN}]
                   : n \in 0..MaxMachines} :
        \A i, j \in DOMAIN ms : i < j => ms[i].ID < ms[j].ID}

\* Mutant: the prompt is shown even if no machine is left to choose.
NoEmptyCheck(ms) == FALSE

\* Line 164: no machine passed the filter.
NoMachinesAvailable(ms) == Len(ms) = 0

\* Lines 168-171: the options shown, "create an ephemeral machine" first.
Options(ms) == <<0>> \o [i \in 1..Len(ms) |-> ms[i].ID]

\* Mutant: the index is not shifted by the "create" option.
ChosenUnshifted(ms, i) == IF i + 1 \in DOMAIN ms THEN ms[i + 1] ELSE ms[1]

\* Line 180: machines[index-1] (Go slices count from 0, sequences from 1).
Chosen(ms, i) == ms[i]

\* Lines 151-166: the selector check, the listing, the filter.
promptForMachine ==
    /\ pc = "promptForMachine"
    /\ IF ConflictingSelectors(args)
          THEN /\ ReturnFromSelect(NoMachine, FALSE,
                                   New("machine IDs can't be used with -s/--select"))
               /\ UNCHANGED <<calls, machines, listErr>>
          ELSE /\ Log(Call("ListActive", 0, "caller"))
               /\ \/ \E e \in ApiErrors :
                        /\ listErr' = e
                        /\ ReturnFromSelect(NoMachine, FALSE, e)
                        /\ UNCHANGED machines
                  \/ \E ms \in MachineLists :
                        /\ listErr' = NoErr
                        /\ machines' = Filter(ms)
                        /\ IF NoMachinesAvailable(Filter(ms))
                              THEN ReturnFromSelect(NoMachine, FALSE,
                                                    New("no machines are available"))
                              ELSE /\ pc' = "promptSelect"
                                   /\ UNCHANGED <<outVars, retval, result>>
    /\ UNCHANGED <<inVars, checkErr, index, fetched, launched, firstErr, destroyed, warnings>>

\* Lines 168-181: the prompt and the choice.
promptSelect ==
    /\ pc = "promptSelect"
    /\ Log(Call("Select", 0, "caller"))
    /\ \/ \E e \in ApiErrors :
            /\ ReturnFromSelect(NoMachine, FALSE,
                                Wrap("failed to prompt for a machine", e))
            /\ UNCHANGED index
       \/ \E i \in 0..(Len(Options(machines)) - 1) :
            /\ index' = i
            /\ IF i = 0
                  THEN /\ pc' = "makeEphemeralMachine"
                       /\ UNCHANGED <<outVars, retval, result>>
                  ELSE ReturnFromSelect(Chosen(machines, i), FALSE, NoErr)
    /\ UNCHANGED <<inVars, listErr, checkErr, machines, fetched, launched, firstErr,
                   destroyed, warnings>>

-----------------------------------------------------------------------------
\* getMachineByID (lines 184-199).

\* Mutant: getMachineByID without the check of the state.
CheckByIDAnyState(m) ==
    IF IsFlyAppsReleaseCommand(m)
       THEN [machine |-> NoMachine,
             err |-> Errorf("machine is a release command machine", m.ID)]
    ELSE [machine |-> m, err |-> NoErr]

\* Lines 191-198: what getMachineByID makes of the fetched machine m.
CheckByID(m) ==
    IF m.State # MachineStateStarted
       THEN [machine |-> NoMachine, err |-> Errorf("machine is not started", m.ID)]
    ELSE IF IsFlyAppsReleaseCommand(m)
       THEN [machine |-> NoMachine,
             err |-> Errorf("machine is a release command machine", m.ID)]
    ELSE [machine |-> m, err |-> NoErr]

getMachineByID ==
    /\ pc = "getMachineByID"
    /\ Log(Call("Get", args[1], "caller"))
    /\ \/ \E e \in GetErrors :
            /\ ReturnFromSelect(NoMachine, FALSE, e)
            /\ UNCHANGED fetched
       \/ \E st \in States, rel \in BOOLEAN :
            LET m == Machine(args[1], st, rel, <<>>) IN
            /\ fetched' = m
            /\ ReturnFromSelect(CheckByID(m).machine, FALSE, CheckByID(m).err)
    /\ UNCHANGED <<inVars, listErr, checkErr, machines, index, launched, firstErr,
                   destroyed, warnings>>

-----------------------------------------------------------------------------
\* makeEphemeralMachine (lines 201-252).

\* Mutant: the release is used without the nil check.
ReleaseCheckNoNil(rel, cfg) ==
    IF ~cfg
       THEN Wrap("failed to generate ephemeral machine configuration", New("config error"))
    ELSE NoErr

\* Lines 211-218: the error for an app without a release, else the error
\* of generating the console machine configuration, else nil.
ReleaseCheck(rel, cfg) ==
    IF ~rel
       THEN New("can't create an ephemeral machine since the app has not yet been released")
    ELSE IF ~cfg
       THEN Wrap("failed to generate ephemeral machine configuration", New("config error"))
    ELSE NoErr

\* Lines 201-220: the current release and the console machine configuration.
makeEphemeralMachine ==
    /\ pc = "makeEphemeralMachine"
    /\ Log(Call("GetAppCurrentReleaseMachines", 0, "caller"))
    /\ \/ \E e \in ApiErrors : ReturnFromSelect(NoMachine, FALSE, e)
       \/ IF ReleaseCheck(released, consoleConfigOK) # NoErr
             THEN ReturnFromSelect(NoMachine, FALSE, ReleaseCheck(released, consoleConfigOK))
             ELSE pc' = "Launch" /\ UNCHANGED <<outVars, retval, result>>
    /\ UNCHANGED <<inVars, selVars, warnings>>

\* Lines 222-231: the launch request.
Launch ==
    /\ pc = "Launch"
    /\ Log(Call("Launch", 0, "caller"))
    /\ \/ \E e \in ApiErrors :
            /\ ReturnFromSelect(NoMachine, FALSE,
                                Wrap("failed to launch ephemeral machine", e))
            /\ UNCHANGED launched
       \/ /\ launched' = Machine(NewID, "created", FALSE, <<>>)
          /\ pc' = "WaitStarted"
          /\ UNCHANGED <<outVars, retval, result>>
    /\ UNCHANGED <<inVars, listErr, checkErr, machines, index, fetched, firstErr,
                   destroyed, warnings>>

\* Mutant: the error of wait-for-started is dropped and the machine handed back.
ProvisionResultSwallowsErr(m, e) ==
    [machine |-> m, ephemeral |-> TRUE, err |-> NoErr]

\* Mutant: the launched machine is handed back together with the error.
ProvisionResultKeepsMachine(m, e) ==
    [machine |-> m, ephemeral |-> TRUE, err |-> e]

\* Lines 238 and 251: what makeEphemeralMachine returns for the machine it
\* launched, given the error e of wait-for-started (or of the destruction check).
ProvisionResult(m, e) ==
    IF e = NoErr
       THEN [machine |-> m, ephemeral |-> TRUE, err |-> NoErr]
       ELSE [machine |-> NoMachine, ephemeral |-> FALSE, err |-> e]

\* Mutant: the advice is given whatever the destruction check found.
ManualAdviceAlways(d) == <<WarnManualMachine>>

\* Lines 248-250: the advice to destroy the machine manually.
ManualAdvice(d) == IF d THEN <<>> ELSE <<WarnManualMachine>>

\* Lines 233-252, without the destruction check: wait-for-started on the
\* caller's ctx.
WaitStarted ==
    /\ pc = "WaitStarted"
    /\ Log(Call("Wait", launched.ID, "caller"))
    /\ \/ LET r == ProvisionResult(launched, NoErr) IN
          /\ ReturnFromSelect(r.machine, r.ephemeral, r.err)
          /\ UNCHANGED <<firstErr, warnings>>
       \/ \E e \in WaitErrors :
            /\ firstErr' = e
            /\ IF IsNotFound(e)
                  THEN /\ pc' = "checkMachineDestruction"
                       /\ UNCHANGED <<outVars, retval, result, warnings>>
                  ELSE LET r == ProvisionResult(launched, e) IN
                       /\ warnings' = warnings \o ManualAdvice(FALSE)
                       /\ ReturnFromSelect(r.machine, r.ephemeral, r.err)
    /\ UNCHANGED <<inVars, listErr, checkErr, machines, index, fetched, launched, destroyed>>

-----------------------------------------------------------------------------
\* checkMachineDestruction (lines 254-283).

\* Mutant: the scan keeps the last event of type "exit".
LastExitEvent(events) ==
    IF \E i \in DOMAIN events : events[i].Type = "exit"
       THEN CHOOSE i \in DOMAIN events :
                /\ events[i].Type = "exit"
                /\ \A j \in (i + 1)..Len(events) : events[j].Type # "exit"
       ELSE 0

\* Lines 265-271: the position of the first event of type "exit", 0 if none.
ExitEvent(events) ==
    IF \E i \in DOMAIN events : events[i].Type = "exit"
       THEN CHOOSE i \in DOMAIN events :
                /\ events[i].Type = "exit"
                /\ \A j \in 1..(i - 1) : events[j].Type # "exit"
       ELSE 0

\* Mutant: the request of the exit event is used without the nil check.
DiagnosisNoRequestCheck(m, first) ==
    IF m.State # "destroyed" /\ m.State # "destroying"
       THEN [destroyed |-> FALSE, err |-> first]
    ELSE LET i == ExitEvent(m.Events) IN
         IF i = 0
            THEN [destroyed |-> TRUE, err |-> New("machine was destroyed unexpectedly")]
         ELSE IF ~m.Events[i].Request.codeOK
            THEN [destroyed |-> TRUE, err |-> New("machine exited unexpectedly")]
         ELSE [destroyed |-> TRUE,
               err |-> Errorf("machine exited unexpectedly with code",
                              m.Events[i].Request.code)]

\* Mutant: the events are read whatever the state of the machine.
DiagnosisIgnoresState(m, first) ==
    LET i == ExitEvent(m.Events) IN
    IF i = 0 \/ ~m.Events[i].Request.present
       THEN [destroyed |-> TRUE, err |-> New("machine was destroyed unexpectedly")]
    ELSE IF ~m.Events[i].Request.codeOK
       THEN [destroyed |-> TRUE, err |-> New("machine exited unexpectedly")]
    ELSE [destroyed |-> TRUE,
          err |-> Errorf("machine exited unexpectedly with code",
                         m.Events[i].Request.code)]

\* Lines 261-283: the diagnosis for the re-fetched machine m.
Diagnosis(m, first) ==
    IF m.State # MachineStateDestroyed /\ m.State # MachineStateDestroying
       THEN [destroyed |-> FALSE, err |-> first]
    ELSE LET i == ExitEvent(m.Events) IN
         IF i = 0 \/ ~m.Events[i].Request.present
            THEN [destroyed |-> TRUE, err |-> New("machine was destroyed unexpectedly")]
         ELSE IF ~m.Events[i].Request.codeOK
            THEN [destroyed |-> TRUE, err |-> New("machine exited unexpectedly")]
         ELSE [destroyed |-> TRUE,
               err |-> Errorf("machine exited unexpectedly with code",
                              m.Events[i].Request.code)]

\* Mutant: the first error is wrapped instead of the error of the re-fetch.
StatusCheckWrapsFirst(e) ==
    [destroyed |-> FALSE, err |-> Wrap("failed to check status of machine", firstErr)]

\* Lines 256-259: the re-fetch failed with e.
StatusCheckFailed(e) ==
    [destroyed |-> FALSE, err |-> Wrap("failed to check status of machine", e)]

\* Lines 245-251 with 254-283: the destruction check and the return of
\* makeEphemeralMachine.
checkMachineDestruction ==
    /\ pc = "checkMachineDestruction"
    /\ Log(Call("Get", launched.ID, "caller"))
    /\ \/ \E e \in GetErrors :
            LET d == StatusCheckFailed(e)
                r == ProvisionResult(launched, d.err)
            IN  /\ checkErr' = e
                /\ destroyed' = d.destroyed
                /\ warnings' = warnings \o ManualAdvice(d.destroyed)
                /\ ReturnFromSelect(r.machine, r.ephemeral, r.err)
                /\ UNCHANGED fetched
       \/ \E st \in States, evs \in EventSeqs :
            LET m == Machine(launched.ID, st, FALSE, evs)
                d == Diagnosis(m, firstErr)
                r == ProvisionResult(launched, d.err)
            IN  /\ checkErr' = NoErr
                /\ fetched' = m
                /\ destroyed' = d.destroyed
                /\ warnings' = warnings \o ManualAdvice(d.destroyed)
                /\ ReturnFromSelect(r.machine, r.ephemeral, r.err)
    /\ UNCHANGED <<inVars, listErr, machines, index, launched, firstErr>>

-----------------------------------------------------------------------------
\* runConsole after selection (lines 121-138).

BringUpAgent ==
    /\ pc = "BringUpAgent"
    /\ Log(Call("BringUpAgent", 0, "caller"))
    /\ \/ \E e \in ApiErrors : err' = e /\ Return(e)
       \/ err' = NoErr /\ pc' = "Connect" /\ UNCHANGED <<retval, result>>
    /\ UNCHANGED <<inVars, selVars, machine, ephemeral, selected, selErr, deferred, warnings>>

Connect ==
    /\ pc = "Connect"
    /\ Log(Call("Connect", machine.ID, "caller"))
    /\ \/ \E e \in ApiErrors : err' = e /\ Return(e)
       \/ err' = NoErr /\ pc' = "Console" /\ UNCHANGED <<retval, result>>
    /\ UNCHANGED <<inVars, selVars, machine, ephemeral, selected, selErr, deferred, warnings>>

Console ==
    /\ pc = "Console"
    /\ Log(Call("Console", machine.ID, "caller"))
    /\ \E e \in ApiErrors \cup {NoErr} : Return(e)
    /\ UNCHANGED <<inVars, selVars, outVars, warnings>>

-----------------------------------------------------------------------------
\* The deferred teardown (lines 94-118), on context.Background.

\* Mutant: the closure goes on to the wait after a failed stop request (no
\* `return` after the warnings).
StopWithoutReturn ==
    /\ pc = "Stop"
    /\ Log(Call("Stop", machine.ID, "background"))
    /\ \/ \E e \in StopErrors :
            /\ warnings' = warnings \o <<WarnStopFailed, WarnManualIt>>
            /\ pc' = "WaitDestroyed"
            /\ UNCHANGED result
       \/ pc' = "WaitDestroyed" /\ UNCHANGED <<warnings, result>>
    /\ UNCHANGED <<inVars, selVars, outVars, retval>>

\* Lines 100-108: the stop request.
Stop ==
    /\ pc = "Stop"
    /\ Log(Call("Stop", machine.ID, "background"))
    /\ \/ \E e \in StopErrors :
            /\ warnings' = warnings \o <<WarnStopFailed, WarnManualIt>>
            /\ result' = AfterTeardown(retval, e)
            /\ pc' = "Done"
       \/ pc' = "WaitDestroyed" /\ UNCHANGED <<warnings, result>>
    /\ UNCHANGED <<inVars, selVars, outVars, retval>>

\* Mutant: the wait has no time budget and polls for ever for a machine that
\* is never destroyed.
WaitDestroyedUnbounded ==
    /\ pc = "WaitDestroyed"
    /\ UNCHANGED vars

\* Lines 110-117: wait for the machine to be destroyed.
WaitDestroyed ==
    /\ pc = "WaitDestroyed"
    /\ Log(Call("WaitDestroyed", machine.ID, "background"))
    /\ \/ \E e \in StopErrors :
            /\ warnings' = warnings \o <<WarnWaitFailed, WarnManualIt>>
            /\ result' = AfterTeardown(retval, e)
       \/ /\ result' = AfterTeardown(retval, NoErr)
          /\ UNCHANGED warnings
    /\ pc' = "Done"
    /\ UNCHANGED <<inVars, selVars, outVars, retval>>

-----------------------------------------------------------------------------
\* The caller cancels ctx (command.New hands runConsole the command's context).
Cancel ==
    /\ pc # "Done"
    /\ ~cancelled
    /\ cancelled' = TRUE
    /\ cancelPc' = pc
    /\ UNCHANGED <<pc, selectFlag, args, released, consoleConfigOK, selVars, outVars,
                   retval, result, calls, warnings>>

Next ==
    \/ RunConsoleStart
    \/ selectMachine
    \/ promptForMachine
    \/ promptSelect
    \/ getMachineByID
    \/ makeEphemeralMachine
    \/ Launch
    \/ WaitStarted
    \/ checkMachineDestruction
    \/ BringUpAgent
    \/ Connect
    \/ Console
    \/ Stop
    \/ WaitDestroyed
    \/ Cancel

Spec == Init /\ [][Next]_vars

\* The steps of the session itself: every collaborator call returns (the
\* waits within their timeouts) and runConsole goes on; the cancellation of
\* ctx is up to the caller.
Step ==
    \/ RunConsoleStart
    \/ selectMachine
    \/ promptForMachine
    \/ promptSelect
    \/ getMachineByID
    \/ makeEphemeralMachine
    \/ Launch
    \/ WaitStarted
    \/ checkMachineDestruction
    \/ BringUpAgent
    \/ Connect
    \/ Console
    \/ Stop
    \/ WaitDestroyed

FairSpec == Init /\ [][Next]_vars /\ WF_vars(Step)

-----------------------------------------------------------------------------
\* Properties.

\* The stop request of the teardown for machine id, on context.Background.
StopIssued(id) == \E i \in DOMAIN calls : calls[i] = Call("Stop", id, "background")

\* Claim C1: once selectMachine has handed back a machine with ephemeral =
\* TRUE, the session is not Done before a stop request for that machine has
\* been issued, whichever of agent bring-up, SSH connect or the console
\* command failed or succeeded.
C1_EphemeralStoppedBeforeDone ==
    (pc = "Done" /\ selected /\ ephemeral) => StopIssued(machine.ID)

\* A session with an ephemeral machine ended in an error of the attach and
\* run steps, after its stop request.
C1_Witness ==
    /\ pc = "Done" /\ selected /\ ephemeral
    /\ result # NoErr
    /\ StopIssued(machine.ID)

\* Claim C2 (as stated): when the launch succeeded and wait-for-started
\* failed with a timeout or a generic error, a stop request for the launched
\* machine is issued before Done, and the first error is the one returned.
C2_TeardownAfterStartFailure ==
    (pc = "Done" /\ launched # NoMachine
       /\ firstErr # NoErr /\ ~IsNotFound(firstErr))
    => (StopIssued(launched.ID) /\ result = firstErr)

\* Claim C3: no stop request and no wait-for-destroyed ever targets a machine
\* that existed before the session (one fetched by its ID or picked from the
\* list).
C3_ExternalNeverStopped ==
    \A i \in DOMAIN calls :
        calls[i].op \in {"Stop", "WaitDestroyed"} => calls[i].id \notin ExistingIDs

\* A session on a pre-existing machine ran the console command and is Done.
C3_Witness ==
    /\ pc = "Done" /\ selected /\ ~ephemeral
    /\ machine.ID \in ExistingIDs
    /\ IssuedFor("Console", machine.ID)

\* Claim C4 (as stated): when the caller's ctx is cancelled after the launch
\* returned and before the attach, the teardown still issues its stop request
\* for the launched machine on its own context. The case taken is the one
\* where wait-for-started fails of nothing but the cancellation.
C4_CancelKeepsTeardown ==
    (pc = "Done" /\ launched # NoMachine
       /\ cancelPc \in {"WaitStarted", "BringUpAgent", "Connect"}
       /\ firstErr \in {NoErr, New("context canceled")})
    => StopIssued(launched.ID)

\* Claim C5: the teardown never changes the result of the session: whatever
\* the stop request and the wait-for-destroyed did, runConsole hands back the
\* value its return statement evaluated, which is the error of agent bring-up
\* or SSH connect if one of them failed; teardown failures are warnings only.
C5_TeardownKeepsResult ==
    pc = "Done" =>
        /\ result = retval
        /\ err # NoErr => result = err

\* A session whose teardown failed at the wait-for-destroyed and whose
\* console command had succeeded.
C5_Witness ==
    /\ pc = "Done" /\ deferred
    /\ \E i \in DOMAIN warnings : warnings[i] = WarnWaitFailed
    /\ IssuedFor("Console", machine.ID)
    /\ result = NoErr

\* Claim C6: when both a machine ID and --select are given, selection fails
\* with the conflicting-selectors error: no machine is fetched, listed,
\* prompted for or launched, and none is handed back.
C6_ConflictingSelectors ==
    (selectFlag /\ Len(args) = 1) =>
        /\ ~Issued("Get") /\ ~Issued("ListActive")
        /\ ~Issued("Select") /\ ~Issued("Launch")
        /\ selected =>
              /\ selErr = New("machine IDs can't be used with -s/--select")
              /\ machine = NoMachine
              /\ result = selErr

\* Selection has returned in a session given both selectors.
C6_Witness == selected /\ selectFlag /\ Len(args) = 1

\* Claim C7: a release command machine is never the machine of the session:
\* the list offered by the prompt holds none, selection never hands one back,
\* and getMachineByID rejects one with an error even if it is started, so
\* that nothing connects to it.
C7_ReservedNeverAttached ==
    /\ \A i \in DOMAIN machines : ~machines[i].Release
    /\ machine # NoMachine => ~machine.Release
    /\ (selected /\ ~selectFlag /\ Len(args) = 1
          /\ fetched.Release /\ fetched.State = "started")
       => /\ selErr = Errorf("machine is a release command machine", args[1])
          /\ machine = NoMachine
          /\ ~Issued("Connect")

\* getMachineByID has fetched a started release command machine.
C7_Witness ==
    /\ selected /\ ~selectFlag /\ Len(args) = 1
    /\ fetched.Release /\ fetched.State = "started"

\* Claim C8 (as stated): when the launched machine does not reach started
\* within the wait budget, what makeEphemeralMachine hands back still carries
\* the ID of the launched machine, in the machine or in the error.
C8_StartFailureKeepsMachineID ==
    (selected /\ launched # NoMachine /\ firstErr = New("timeout"))
    => \/ machine.ID = launched.ID
       \/ \E i \in DOMAIN selErr : selErr[i].arg = launched.ID

\* Claim C9 (as stated): in interactive-pick mode choosing index i hands back
\* the i-th machine of the filtered list (i counted from 0, as the prompt
\* counts) with ephemeral = FALSE, and no choice launches a machine.
C9_IndexMapsToList ==
    index # -1 =>
        /\ ~Issued("Launch")
        /\ pc # "makeEphemeralMachine"
        /\ selected =>
              /\ index + 1 \in DOMAIN machines
              /\ machine = machines[index + 1]
              /\ ~ephemeral

\* Claim C9 (amended): option 0 of the prompt is "create an ephemeral
\* machine" and choosing it goes on to makeEphemeralMachine; choosing index
\* i >= 1 hands back machine i-1 of the filtered list (counted from 0) with
\* ephemeral = FALSE, and launches nothing.
C9_IndexShiftedByCreateOption ==
    /\ index >= 1 =>
          /\ selected /\ selErr = NoErr
          /\ index \in DOMAIN machines
          /\ machine = machines[index]
          /\ ~ephemeral
          /\ ~Issued("GetAppCurrentReleaseMachines") /\ ~Issued("Launch")
    /\ index = 0 =>
          /\ pc = "makeEphemeralMachine" \/ Issued("GetAppCurrentReleaseMachines")
          /\ (selected /\ selErr = NoErr) => (ephemeral /\ machine = launched)

\* The second of two offered machines was chosen and handed back.
C9_Witness ==
    /\ selected /\ index = 2 /\ Len(machines) = 2
    /\ machine = machines[2]

\* Claim C10: when wait-for-started failed with a not-found error, the
\* re-fetched machine is destroyed or destroying, and its first "exit" event
\* has a request whose exit code N can be read, the check reports the machine
\* destroyed with the error "exited unexpectedly with code N" for that N, and
\* this is the error the session returns (with no advice to destroy the
\* machine manually).
C10_ExitedWithCode ==
    \A i \in DOMAIN fetched.Events :
        (/\ selected /\ fetched.ID = launched.ID /\ IsNotFound(firstErr)
         /\ fetched.State \in {"destroyed", "destroying"}
         /\ fetched.Events[i].Type = "exit"
         /\ \A j \in 1..(i - 1) : fetched.Events[j].Type # "exit"
         /\ fetched.Events[i].Request.present
         /\ fetched.Events[i].Request.codeOK)
        => /\ destroyed
           /\ selErr = Errorf("machine exited unexpectedly with code",
                              fetched.Events[i].Request.code)
           /\ pc = "Done" /\ result = selErr

\* The destruction check saw a destroyed machine whose events are a start
\* and an exit with code 137.
C10_Witness ==
    /\ selected /\ fetched.ID = launched.ID /\ IsNotFound(firstErr)
    /\ fetched.State = "destroyed"
    /\ Len(fetched.Events) = 2
    /\ fetched.Events[1].Type = "start"
    /\ fetched.Events[2] = [Type |-> "exit",
                            Request |-> [present |-> TRUE, codeOK |-> TRUE, code |-> 137]]
    /\ result = Errorf("machine exited unexpectedly with code", 137)

-----------------------------------------------------------------------------
\* The destruction check (claims C11 to C14, C20).

\* wait-for-started failed with a not-found error and the check ran.
Checked == selected /\ launched # NoMachine /\ IsNotFound(firstErr)

\* The check ran and its re-fetch of the machine succeeded.
Refetched == Checked /\ checkErr = NoErr

\* The re-fetched machine is gone or going.
Gone == fetched.State \in {"destroyed", "destroying"}

\* Event i is the first event of type "exit" of the re-fetched machine.
IsFirstExit(i) ==
    /\ i \in DOMAIN fetched.Events
    /\ fetched.Events[i].Type = "exit"
    /\ \A j \in 1..(i - 1) : fetched.Events[j].Type # "exit"

\* The advice to destroy the launched machine manually has been given.
Advised == \E i \in DOMAIN warnings : warnings[i] = WarnManualMachine

\* Claim C11: when the re-fetched machine is destroyed or destroying and has
\* no "exit" event, or its first "exit" event has no request, the check
\* reports the machine destroyed with the error "machine was destroyed
\* unexpectedly", which the session returns.
C11_UnexpectedDestruction ==
    (/\ Refetched /\ Gone
     /\ \/ \A i \in DOMAIN fetched.Events : fetched.Events[i].Type # "exit"
        \/ \E i \in DOMAIN fetched.Events :
              IsFirstExit(i) /\ ~fetched.Events[i].Request.present)
    => /\ destroyed
       /\ selErr = New("machine was destroyed unexpectedly")
       /\ pc = "Done" /\ result = selErr

\* The check saw a destroying machine whose first exit event has no request
\* and whose second has one.
C11_Witness ==
    /\ Refetched /\ fetched.State = "destroying"
    /\ Len(fetched.Events) = 2
    /\ IsFirstExit(1) /\ ~fetched.Events[1].Request.present
    /\ fetched.Events[2].Type = "exit" /\ fetched.Events[2].Request.codeOK

\* Claim C12: when the re-fetched machine is neither destroyed nor destroying,
\* the check reports it not destroyed and hands back the error of
\* wait-for-started unchanged, and the session returns that error.
C12_Transient404 ==
    (Refetched /\ ~Gone)
    => /\ ~destroyed
       /\ selErr = firstErr
       /\ pc = "Done" /\ result = firstErr

\* The check saw a started machine, with an exit event in its history, after
\* a wrapped not-found error.
C12_Witness ==
    /\ Refetched /\ fetched.State = "started"
    /\ firstErr = Wrap("wait", FlapsError(404))
    /\ \E i \in DOMAIN fetched.Events : fetched.Events[i].Type = "exit"
    /\ result = firstErr

\* Claim C13: when the re-fetch of the check fails, the result is the error
\* "failed to check status of machine" wrapping the error of the re-fetch
\* (not the error of wait-for-started), the machine is reported not destroyed,
\* and the advice to destroy it manually is given.
C13_StatusCheckFailed ==
    (Checked /\ checkErr # NoErr)
    => /\ ~destroyed
       /\ selErr = Wrap("failed to check status of machine", checkErr)
       /\ pc = "Done" /\ result = selErr
       /\ Advised

\* The re-fetch failed with an error other than the one of wait-for-started.
C13_Witness ==
    /\ Checked /\ checkErr # NoErr /\ checkErr # firstErr
    /\ result = Wrap("failed to check status of machine", checkErr)

\* Claim C14: when provisioning fails after the launch, the advice to
\* destroy the machine manually is given iff the destruction was not
\* confirmed: it is given on a timeout or generic error, on a transient 404
\* and on a failed status check, and not given when the check reported the
\* machine destroyed; it is given in no other case.
C14_AdviceIffNotDestroyed ==
    /\ (selected /\ launched # NoMachine /\ selErr # NoErr) =>
          /\ Advised <=> ~destroyed
          /\ ~IsNotFound(firstErr) => Advised
          /\ (Checked /\ checkErr # NoErr) => Advised
          /\ (Refetched /\ ~Gone) => Advised
          /\ (Refetched /\ Gone) => (destroyed /\ ~Advised)
    /\ Advised => (selected /\ launched # NoMachine /\ selErr # NoErr)

\* Provisioning failed with the destruction confirmed and no advice given.
C14_Witness ==
    /\ selected /\ launched # NoMachine /\ selErr # NoErr
    /\ Refetched /\ Gone /\ destroyed /\ ~Advised

-----------------------------------------------------------------------------
\* Ordering and the remaining failure paths (claims C15 to C20).

\* The calls of the attach and run steps, and those of the teardown.
AttachOps == {"BringUpAgent", "Connect", "Console"}

TeardownOps == {"Stop", "WaitDestroyed"}

\* Claim C15: an attach or run step is only taken after selection returned
\* without error, which for a launched machine means after wait-for-started
\* was called and succeeded; every call of the teardown comes after every
\* call of the attach and run steps, when these have concluded.
C15_Ordering ==
    /\ \A j \in DOMAIN calls :
          calls[j].op \in AttachOps =>
             /\ selected /\ selErr = NoErr
             /\ launched # NoMachine =>
                   /\ firstErr = NoErr
                   /\ \E w \in 1..(j - 1) : calls[w] = Call("Wait", launched.ID, "caller")
    /\ \A i, j \in DOMAIN calls :
          (calls[i].op \in TeardownOps /\ calls[j].op \in AttachOps) => j < i
    /\ (\E i \in DOMAIN calls : calls[i].op \in TeardownOps) =>
          pc \in {"WaitDestroyed", "Done"}

\* A session on a launched machine went through wait, attach, run and both
\* steps of the teardown.
C15_Witness ==
    /\ pc = "Done" /\ ephemeral
    /\ IssuedFor("Wait", machine.ID) /\ IssuedFor("Console", machine.ID)
    /\ IssuedFor("Stop", machine.ID) /\ IssuedFor("WaitDestroyed", machine.ID)

StopFailed == \E i \in DOMAIN warnings : warnings[i] = WarnStopFailed

WaitDestroyedFailed == \E i \in DOMAIN warnings : warnings[i] = WarnWaitFailed

\* Claim C16: a failed stop request gives a warning and ends the teardown,
\* with no wait-for-destroyed; the wait-for-destroyed is only issued after a
\* stop request that succeeded, and its failure gives a warning and nothing
\* else.
C16_TeardownSteps ==
    /\ StopFailed =>
          /\ ~Issued("WaitDestroyed")
          /\ pc = "Done"
          /\ warnings = <<WarnStopFailed, WarnManualIt>>
    /\ \A i \in DOMAIN calls :
          calls[i].op = "WaitDestroyed" =>
             /\ ~StopFailed
             /\ \E j \in 1..(i - 1) : calls[j] = Call("Stop", calls[i].id, "background")
    /\ WaitDestroyedFailed =>
          /\ pc = "Done"
          /\ warnings = <<WarnWaitFailed, WarnManualIt>>
          /\ result = retval

\* The stop request of a session failed.
C16_Witness == pc = "Done" /\ StopFailed /\ StopIssued(machine.ID)

\* The session was given a machine ID and no --select.
ByID == ~selectFlag /\ Len(args) = 1

\* Claim C17: when the machine fetched by its ID is in any state but started,
\* getMachineByID fails with the error "machine is not started": nothing is
\* attached to, launched or stopped; and a machine given by its ID is
\* attached to only if it was fetched in state started.
C17_NotStartedNotUsable ==
    /\ (ByID /\ fetched # NoMachine /\ fetched.State # "started") =>
          /\ selected
          /\ selErr = Errorf("machine is not started", args[1])
          /\ machine = NoMachine
          /\ pc = "Done" /\ result = selErr
          /\ \A i \in DOMAIN calls :
                calls[i].op \notin AttachOps \cup TeardownOps \cup {"Launch"}
    /\ (ByID /\ \E i \in DOMAIN calls : calls[i].op \in AttachOps) =>
          /\ fetched.State = "started"
          /\ machine = fetched

\* A machine fetched by its ID was stopping.
C17_Witness == ByID /\ selected /\ fetched.State = "stopping"

\* Claim C18: when the listing succeeded and no listed machine is started
\* and not a release command machine, promptForMachine fails with "no
\* machines are available": the prompt is not shown and nothing is launched.
C18_NoMachinesAvailable ==
    (Issued("ListActive") /\ listErr = NoErr /\ machines = <<>>) =>
        /\ selected
        /\ selErr = New("no machines are available")
        /\ machine = NoMachine
        /\ pc = "Done" /\ result = selErr
        /\ ~Issued("Select") /\ ~Issued("GetAppCurrentReleaseMachines")
        /\ ~Issued("Launch")

\* The listing succeeded and the filter left no machine.
C18_Witness ==
    selectFlag /\ Issued("ListActive") /\ listErr = NoErr /\ machines = <<>>

\* The lookup of the current release itself failed.
ReleaseLookupFailed ==
    selErr \in {New("api error"), New("context canceled")}
               \cup {FlapsError(c) : c \in OtherStatuses}

\* Claim C19: when the app has no release, makeEphemeralMachine fails with
\* the not-released error, and when the console machine configuration cannot
\* be generated it fails with that error; in both cases no launch request is
\* made, no machine exists and nothing is torn down.
C19_NoReleaseNoLaunch ==
    (Issued("GetAppCurrentReleaseMachines") /\ (~released \/ ~consoleConfigOK)) =>
        /\ selected /\ pc = "Done" /\ result = selErr
        /\ ~Issued("Launch") /\ launched = NoMachine
        /\ ~Issued("Stop")
        /\ ~ReleaseLookupFailed =>
              selErr = IF ~released
                          THEN New("can't create an ephemeral machine since the app has not yet been released")
                          ELSE Wrap("failed to generate ephemeral machine configuration",
                                    New("config error"))

\* makeEphemeralMachine found no release of the app.
C19_Witness ==
    /\ Issued("GetAppCurrentReleaseMachines") /\ ~released
    /\ ~ReleaseLookupFailed

\* Claim C20: when the re-fetched machine is destroyed or destroying and its
\* first "exit" event has a request whose exit code cannot be read, the
\* check reports the machine destroyed with the error "machine exited
\* unexpectedly", whatever later exit events say.
C20_UnexpectedExit ==
    (/\ Refetched /\ Gone
     /\ \E i \in DOMAIN fetched.Events :
           /\ IsFirstExit(i)
           /\ fetched.Events[i].Request.present
           /\ ~fetched.Events[i].Request.codeOK)
    => /\ destroyed
       /\ selErr = New("machine exited unexpectedly")
       /\ pc = "Done" /\ result = selErr

\* The first exit event has an unreadable exit code and a later one has
\* exit code 137.
C20_Witness ==
    /\ Refetched /\ Gone
    /\ Len(fetched.Events) = 2
    /\ IsFirstExit(1)
    /\ fetched.Events[1].Request.present /\ ~fetched.Events[1].Request.codeOK
    /\ fetched.Events[2] = [Type |-> "exit",
                            Request |-> [present |-> TRUE, codeOK |-> TRUE, code |-> 137]]

-----------------------------------------------------------------------------
\* The session as a whole (claims C21 to C23).

\* The state of the session state machine that a position belongs to:
\* 0 Idle, 1 Selecting, 2 Provisioning, 3 Attaching, 4 Running,
\* 5 TearingDown, 6 Done.
Phase(p) ==
    CASE p = "Idle" -> 0
      [] p \in {"selectMachine", "promptForMachine", "promptSelect",
                "getMachineByID"} -> 1
      [] p \in {"makeEphemeralMachine", "Launch", "WaitStarted",
                "checkMachineDestruction"} -> 2
      [] p \in {"BringUpAgent", "Connect"} -> 3
      [] p = "Console" -> 4
      [] p \in {"Stop", "WaitDestroyed"} -> 5
      [] p = "Done" -> 6

\* The transitions of the state machine: the chain Idle, Selecting,
\* (Provisioning,) Attaching, Running, TearingDown, Done, and from each state
\* the way out on an error.
PhaseSuccessors(n) ==
    CASE n = 0 -> {1, 6}
      [] n = 1 -> {2, 3, 6}
      [] n = 2 -> {3, 6}
      [] n = 3 -> {4, 5, 6}
      [] n = 4 -> {5, 6}
      [] n = 5 -> {6}
      [] n = 6 -> {}

\* The order in which runConsole and its callees come to their positions.
Rank(p) ==
    CASE p = "Idle" -> 0
      [] p = "selectMachine" -> 1
      [] p = "promptForMachine" -> 2
      [] p = "promptSelect" -> 3
      [] p = "getMachineByID" -> 4
      [] p = "makeEphemeralMachine" -> 5
      [] p = "Launch" -> 6
      [] p = "WaitStarted" -> 7
      [] p = "checkMachineDestruction" -> 8
      [] p = "BringUpAgent" -> 9
      [] p = "Connect" -> 10
      [] p = "Console" -> 11
      [] p = "Stop" -> 12
      [] p = "WaitDestroyed" -> 13
      [] p = "Done" -> 14

\* One step of the session keeps to the state machine: a position is never
\* come back to, a change of state is a transition of the state machine,
\* TearingDown is entered iff the machine is ephemeral, and Done(success)
\* comes from Running or TearingDown only.
SessionStep ==
    pc' # pc =>
        /\ Rank(pc') > Rank(pc)
        /\ Phase(pc') # Phase(pc) => Phase(pc') \in PhaseSuccessors(Phase(pc))
        /\ pc' = "Stop" => ephemeral
        /\ (pc' = "Done" /\ Phase(pc) \in {3, 4}) => ~ephemeral
        /\ (pc' = "Done" /\ result' = NoErr) => Phase(pc) \in {4, 5}

\* Claim C21: every session terminates: with every collaborator call
\* returning, the session reaches Done, with or without an error, and until
\* then it follows Idle, Selecting, (Provisioning,) Attaching, Running,
\* TearingDown (if ephemeral), Done, leaving the chain only for Done or
\* TearingDown on an error, and coming back to no state.
C21_SessionTerminates ==
    /\ <>(pc = "Done")
    /\ [][SessionStep]_vars

\* A session on a launched machine is Done without error, after its teardown.
C21_Witness ==
    /\ pc = "Done" /\ ephemeral /\ result = NoErr
    /\ IssuedFor("Console", machine.ID) /\ IssuedFor("WaitDestroyed", machine.ID)

\* Claim C22: what selection hands back is never both a machine and an
\* error: with an error the machine is nil and ephemeral is false, without
\* one there is a machine; ephemeral is true only for the machine this
\* session launched, after a wait-for-started that succeeded.
C22_MachineOrError ==
    selected =>
        /\ selErr # NoErr => (machine = NoMachine /\ ~ephemeral)
        /\ selErr = NoErr => machine # NoMachine
        /\ ephemeral =>
              /\ launched # NoMachine /\ machine = launched
              /\ IssuedFor("Wait", launched.ID) /\ firstErr = NoErr
        /\ (selErr = NoErr /\ ~ephemeral) => machine.ID \in ExistingIDs

\* Selection failed at wait-for-started, after the launch of a machine.
C22_Witness ==
    /\ selected /\ launched # NoMachine /\ firstErr # NoErr
    /\ selErr # NoErr /\ machine = NoMachine

\* The positions in calls of the calls of operation op.
CallsOf(op) == {i \in DOMAIN calls : calls[i].op = op}

\* Claim C23: a session issues at most one launch request and at most one
\* stop request, and a stop request targets the ID of the machine that this
\* session launched, never another one.
C23_OneLaunchOneStop ==
    /\ Cardinality(CallsOf("Launch")) <= 1
    /\ Cardinality(CallsOf("Stop")) <= 1
    /\ \A i \in CallsOf("Stop") :
          /\ launched # NoMachine
          /\ calls[i].id = launched.ID
          /\ \E j \in 1..(i - 1) : calls[j].op = "Launch"

\* A session that offered machines in the prompt launched one instead and
\* stopped it.
C23_Witness ==
    /\ pc = "Done" /\ index = 0 /\ Len(machines) > 0
    /\ Cardinality(CallsOf("Launch")) = 1
    /\ CallsOf("Stop") # {}
    /\ \A i \in CallsOf("Stop") : calls[i].id = launched.ID

====
